---- MODULE Spec2Model ----
(***************************************************************************)
(* A model of tools/markdown-to-mm.js: the line classifier, the structural *)
(* parser (a reduce over the classified lines), the metadata analyser, the *)
(* example collector and the metadata merge.                               *)
(*                                                                         *)
(* Strings are sequences of one-character strings, so that the regular     *)
(* expressions of the source are computed character by character.          *)
(***************************************************************************)
EXTENDS Integers, Sequences, FiniteSets, TLC

VARIABLES
  source,      \* parse: the text of the document
  nodes,       \* parse: the classified lines followed by EOF
  i,           \* parse: the index of the reduce (nodes already folded)
  annotation,  \* parse: ctx.annotation
  current,     \* parse: ctx.current
  ast,         \* parse: ctx.ast
  units,       \* analyse: the flattened result of parseMeta
  line,        \* classifyLine: the line given
  kind,        \* classifyLine: the node returned
  tokens,      \* collectExamples: the blocks marked.lexer returned
  tokenIndex,  \* collectExamples: the index of the reduce
  examples,    \* collectExamples: the examples closed so far
  currentExample,     \* collectExamples: the code blocks captured (current)
  heading,            \* collectExamples: the heading the capture is under
  nextNodeIsExample,  \* collectExamples: the previous block was a marker
  result,      \* collectExamples: the examples returned
  args,        \* mergeMeta: the objects to merge
  fullMeta,    \* mergeMeta: the merged metadata
  emitted,     \* mergeMeta: the object expression returned
  documentation,  \* the documentation text to rewrite
  once,           \* the documentation rewritten
  twice,          \* the rewritten documentation rewritten again
  key,         \* valueToLiteral: the key of the field
  value,       \* valueToLiteral: the value of the field
  literal,     \* valueToLiteral: the expression returned
  proto,       \* runtime: the prototype of each object
  magical,     \* runtime: the own @@meta:magical property of each object
  store,       \* runtime: the metadata mappings allocated, by identity
  calls,       \* runtime: the calls of __metamagical_withMeta made
  program,     \* runtime: the guide statements of a generated module
  executed,    \* runtime: the statements already run
  guides,      \* runtime: PARENT[GUIDE], for each parent and title
  registry,    \* runtime: what meta.for(object).update(...) recorded
  statements,  \* generate: the statements generated so far, one per unit
  output,      \* main: the file written
  pc,          \* the position in the pipeline
  err          \* the error thrown, if any

parseVars    == <<source, nodes, i, annotation, current, ast, units>>
classifyVars == <<line, kind>>
mineVars     == <<tokens, tokenIndex, examples, currentExample, heading,
                  nextNodeIsExample, result>>
metaVars     == <<args, fullMeta, emitted>>
rewriteVars  == <<documentation, once, twice>>
literalVars  == <<key, value, literal>>
withMetaVars == <<proto, magical, store, calls>>
runtimeVars  == <<program, executed, guides, registry>>
generateVars == <<statements, output>>

laterVars == <<literalVars, withMetaVars, runtimeVars, generateVars>>

vars == <<parseVars, classifyVars, mineVars, metaVars, rewriteVars, laterVars,
          pc, err>>

\* what the parser and the analyser leave alone
notParse == <<classifyVars, mineVars, metaVars, rewriteVars, laterVars>>

----------------------------------------------------------------------------
(* Bounds *)

MaxLines  == 5
MaxSuffix == 3
MaxTokens == 4
MaxDocLen == 6
MaxArgs   == 2

----------------------------------------------------------------------------
(* JavaScript values *)

Null      == [type |-> "null"]
Undefined == [type |-> "undefined"]
Str(s)    == [type |-> "string", val |-> s]
Arr(xs)   == [type |-> "array", val |-> xs]
Bool(b)  == [type |-> "boolean", val |-> b]
Num(x)   == [type |-> "number", val |-> x]
Raw(v)   == [type |-> "raw", val |-> v]
Obj(o)   == [type |-> "object", val |-> o]

\* ToBoolean
Truthy(v) ==
  CASE v.type = "boolean" -> v.val
    [] v.type = "string"  -> v.val # <<>>
    [] v.type = "number"  -> v.val # 0
    [] v.type \in {"null", "undefined"} -> FALSE
    [] OTHER -> TRUE

\* what a call gives: the value returned or the error thrown
Returned(x) == [ok |-> TRUE, expr |-> x]
Thrown(e)   == [ok |-> FALSE, error |-> e]

NoError == [kind |-> "none"]

LF == "\n"
CR == "\r"

\* a LineTerminator of the regular expression grammar: `.` does not match it
IsLineTerminator(c) == c \in {LF, CR}

\* the class \s
IsSpace(c) == c \in {" ", "\t", LF, CR}

Letters ==
  { "a", "b", "c", "d", "e", "f", "g", "h", "i", "j", "k", "l", "m",
    "n", "o", "p", "q", "r", "s", "t", "u", "v", "w", "x", "y", "z" }

StartsWith(s, p) ==
  /\ Len(s) >= Len(p)
  /\ SubSeq(s, 1, Len(p)) = p

AllSpace(s) == \A k \in 1..Len(s) : IsSpace(s[k])

----------------------------------------------------------------------------
(* Helpers *)

append(list, item) ==
  IF item # Null /\ item # Undefined THEN Append(list, item) ELSE list

intoArray(x) ==
  IF x.type = "array" THEN x ELSE Arr(<<x>>)

\* the element of a set of one element: { e(x) : x \in {v} } has v computed
\* once, however often e uses it
The(S) == CHOOSE x \in S : TRUE

RECURSIVE join(_, _)
join(xs, sep) ==
  IF xs = <<>> THEN <<>>
  ELSE IF Len(xs) = 1 THEN xs[1]
  ELSE xs[1] \o sep \o join(Tail(xs), sep)

RECURSIVE flatten(_)
flatten(xs) ==
  IF xs = <<>> THEN <<>> ELSE Head(xs) \o flatten(Tail(xs))

----------------------------------------------------------------------------
(* Parser: classifyLine *)

ANNOTATE == <<"@", "a", "n", "n", "o", "t", "a", "t", "e", ":">>
GUIDE    == <<"@", "g", "u", "i", "d", "e", ":">>

\* the capture group of /^\@annotate:\s*(.+)/m (and of the @guide: pattern)
\* on what follows the keyword; Null when the pattern does not match
Capture(rest) ==
  IF \E k \in 1..Len(rest) : ~IsSpace(rest[k])
  THEN \* \s* takes the leading white space, (.+) runs to the end of the line
       LET first == CHOOSE k \in 1..Len(rest) :
                      /\ ~IsSpace(rest[k])
                      /\ \A j \in 1..(k - 1) : IsSpace(rest[j])
           stop  == CHOOSE k \in first..Len(rest) :
                      /\ \A j \in first..k : ~IsLineTerminator(rest[j])
                      /\ (k = Len(rest) \/ IsLineTerminator(rest[k + 1]))
       IN  Str(SubSeq(rest, first, stop))
  ELSE IF \E k \in 1..Len(rest) : ~IsLineTerminator(rest[k])
  THEN \* \s* gives characters back until (.+) finds one that `.` matches
       LET last == CHOOSE k \in 1..Len(rest) :
                     /\ ~IsLineTerminator(rest[k])
                     /\ \A j \in (k + 1)..Len(rest) : IsLineTerminator(rest[j])
       IN  Str(<<rest[last]>>)
  ELSE Null

\* /^---+\s*$/
IsSeparator(l) ==
  \E d \in 3..Len(l) :
    /\ \A k \in 1..d : l[k] = "-"
    /\ AllSpace(SubSeq(l, d + 1, Len(l)))

\* the payload of a directive: match(...)[1]; reading [1] of null throws
Payload(tag, rest) ==
  IF Capture(rest) = Null
  THEN [tag |-> "TypeError"]
  ELSE [tag |-> tag, payload |-> Capture(rest)]

classifyLine(l) ==
  IF StartsWith(l, ANNOTATE)
    THEN Payload("Entity", SubSeq(l, Len(ANNOTATE) + 1, Len(l)))
  ELSE IF StartsWith(l, GUIDE)
    THEN Payload("Guide", SubSeq(l, Len(GUIDE) + 1, Len(l)))
  ELSE IF IsSeparator(l)
    THEN [tag |-> "Separator"]
  ELSE [tag |-> "Line", payload |-> Str(l)]

----------------------------------------------------------------------------
(* Parser: parse *)

\* source.split(/\r\n|\n\r|\r|\n/)
\* a match of the pattern starts at p: a terminator that is not the second
\* character of a two-character match
RECURSIVE StartsBreak(_, _)
StartsBreak(s, p) ==
  /\ s[p] \in {CR, LF}
  /\ ~ /\ p > 1
       /\ s[p - 1] \in {CR, LF}
       /\ s[p - 1] # s[p]
       /\ StartsBreak(s, p - 1)

\* the last character of the match that starts at p
BreakEnd(s, p) ==
  IF p < Len(s) /\ s[p + 1] \in {CR, LF} /\ s[p + 1] # s[p]
  THEN p + 1 ELSE p

\* the pieces between the matches that start at the positions given
pieces(s, starts) ==
  LET nth(k) == CHOOSE p \in starts :
                  Cardinality({ q \in starts : q < p }) = k - 1
      from(k) == IF k = 1 THEN 1 ELSE BreakEnd(s, nth(k - 1)) + 1
      to(k)   == IF k = Cardinality(starts) + 1 THEN Len(s) ELSE nth(k) - 1
  IN  [k \in 1..(Cardinality(starts) + 1) |-> SubSeq(s, from(k), to(k))]

split(s) ==
  The({ pieces(s, starts) :
          starts \in { { p \in 1..Len(s) : StartsBreak(s, p) } } })

ErrOnlyEntities == "Multiple annotations are only supported for entities."
ErrImmediately  == "Multiple annotations have to follow each other immediately."
ErrGuides       == "Multiple annotations are not supported for guides."
ErrSeparator    == "Annotation separator found without a matching entity"
ErrDocBefore    == "Documentation found before an entity annotation"

Throw(msg) == [kind |-> "Error", msg |-> msg, line |-> i + 1]

\* the lines a document is written with
AnnotateA == ANNOTATE \o <<" ", "a">>
AnnotateB == ANNOTATE \o <<" ", "b">>
GuideG    == GUIDE \o <<" ", "g">>
Dashes    == <<"-", "-", "-">>
Plain     == <<"k", ":", "v">>

LinePool == {AnnotateA, AnnotateB, GuideG, Dashes, Plain, ANNOTATE}

RECURSIVE JoinLines(_)
JoinLines(ls) ==
  IF ls = <<>> THEN <<>>
  ELSE IF Len(ls) = 1 THEN ls[1]
  ELSE ls[1] \o <<LF>> \o JoinLines(Tail(ls))

Documents ==
  { JoinLines(ls) : ls \in UNION { [1..n -> LinePool] : n \in 0..MaxLines } }

ParseIdle ==
  /\ source = <<>>
  /\ nodes = <<>>
  /\ i = 0
  /\ annotation = Null
  /\ current = Null
  /\ ast = <<>>
  /\ units = <<>>

ClassifyIdle ==
  /\ line = <<>>
  /\ kind = Null

MineIdle ==
  /\ tokens = <<>>
  /\ tokenIndex = 0
  /\ examples = <<>>
  /\ currentExample = <<>>
  /\ heading = Null
  /\ nextNodeIsExample = FALSE
  /\ result = <<>>

MetaIdle ==
  /\ args = <<>>
  /\ fullMeta = <<>>
  /\ emitted = <<>>

RewriteIdle ==
  /\ documentation = <<>>
  /\ once = <<>>
  /\ twice = <<>>

LiteralIdle ==
  /\ key = ""
  /\ value = Null
  /\ literal = Null

WithMetaIdle ==
  /\ proto = <<>>
  /\ magical = <<>>
  /\ store = <<>>
  /\ calls = <<>>

RuntimeIdle ==
  /\ program = <<>>
  /\ executed = 0
  /\ guides = <<>>
  /\ registry = <<>>

GenerateIdle ==
  /\ statements = <<>>
  /\ output = Null

LaterIdle ==
  /\ LiteralIdle
  /\ WithMetaIdle
  /\ RuntimeIdle
  /\ GenerateIdle

Init ==
  /\ source \in Documents
  /\ nodes = <<>>
  /\ i = 0
  /\ annotation = Null
  /\ current = Null
  /\ ast = <<>>
  /\ units = <<>>
  /\ pc = "parse"
  /\ err = NoError
  /\ ClassifyIdle
  /\ MineIdle
  /\ MetaIdle
  /\ RewriteIdle
  /\ LaterIdle

\* append(source.split(...).map(classifyLine), ['EOF'])
Classified(s) ==
  LET lines == split(s)
  IN  [k \in 1..Len(lines) |-> classifyLine(lines[k])]

Classify ==
  /\ pc = "parse"
  /\ LET cs == Classified(source) IN
       IF \E k \in 1..Len(cs) : cs[k].tag = "TypeError"
       THEN /\ pc' = "error"
            /\ err' = [kind |-> "TypeError",
                       line |-> CHOOSE k \in 1..Len(cs) :
                                  /\ cs[k].tag = "TypeError"
                                  /\ \A j \in 1..(k - 1) : cs[j].tag # "TypeError"]
            /\ nodes' = nodes
       ELSE /\ pc' = "reduce"
            /\ err' = err
            /\ nodes' = append(cs, [tag |-> "EOF"])
  /\ UNCHANGED <<source, i, annotation, current, ast, units, notParse>>

\* the node the reduce is at
node == nodes[i + 1]

At(tag) ==
  /\ pc = "reduce"
  /\ i < Len(nodes)
  /\ node.tag = tag

Fail(msg) ==
  /\ pc' = "error"
  /\ err' = Throw(msg)
  /\ UNCHANGED <<parseVars, notParse>>

Step(a, c, s) ==
  /\ annotation' = a
  /\ current' = c
  /\ ast' = s
  /\ i' = i + 1
  /\ UNCHANGED <<source, nodes, units, pc, err, notParse>>

\* Entity without the test of ctx.current.sealed
EntityIgnoresSealed ==
  /\ At("Entity")
  /\ IF annotation # Null
     THEN IF annotation # Str("entity")
          THEN Fail(ErrOnlyEntities)
          ELSE Step(Str("entity"),
                    [title |-> Undefined,
                     ref |-> Arr(intoArray(current.ref).val \o <<node.payload>>),
                     meta |-> <<>>, doc |-> <<>>,
                     multi |-> TRUE, sealed |-> FALSE],
                    ast)
     ELSE Step(Str("entity"),
               [title |-> Undefined, ref |-> node.payload,
                meta |-> <<>>, doc |-> <<>>,
                multi |-> FALSE, sealed |-> FALSE],
               append(ast, current))

\* Entity with the new reference put before the grouped ones
EntityPrepends ==
  /\ At("Entity")
  /\ IF annotation # Null
     THEN IF annotation # Str("entity")
          THEN Fail(ErrOnlyEntities)
          ELSE IF ~current.sealed
          THEN Step(Str("entity"),
                    [title |-> Undefined,
                     ref |-> Arr(<<node.payload>> \o intoArray(current.ref).val),
                     meta |-> <<>>, doc |-> <<>>,
                     multi |-> TRUE, sealed |-> FALSE],
                    ast)
          ELSE Fail(ErrImmediately)
     ELSE Step(Str("entity"),
               [title |-> Undefined, ref |-> node.payload,
                meta |-> <<>>, doc |-> <<>>,
                multi |-> FALSE, sealed |-> FALSE],
               append(ast, current))

Entity ==
  /\ At("Entity")
  /\ IF annotation # Null
     THEN IF annotation # Str("entity")
          THEN Fail(ErrOnlyEntities)
          ELSE IF ~current.sealed
          THEN Step(Str("entity"),
                    [title |-> Undefined,
                     ref |-> Arr(intoArray(current.ref).val \o <<node.payload>>),
                     meta |-> <<>>, doc |-> <<>>,
                     multi |-> TRUE, sealed |-> FALSE],
                    ast)
          ELSE Fail(ErrImmediately)
     ELSE Step(Str("entity"),
               [title |-> Undefined, ref |-> node.payload,
                meta |-> <<>>, doc |-> <<>>,
                multi |-> FALSE, sealed |-> FALSE],
               append(ast, current))

\* Guide testing only for a guide annotation
GuideAfterEntity ==
  /\ At("Guide")
  /\ IF annotation = Str("guide")
     THEN Fail(ErrGuides)
     ELSE Step(Str("guide"),
               [title |-> node.payload, ref |-> Undefined,
                meta |-> <<>>, doc |-> <<>>,
                multi |-> FALSE, sealed |-> FALSE],
               ast)

Guide ==
  /\ At("Guide")
  /\ IF annotation # Null
     THEN Fail(ErrGuides)
     ELSE Step(Str("guide"),
               [title |-> node.payload, ref |-> Undefined,
                meta |-> <<>>, doc |-> <<>>,
                multi |-> FALSE, sealed |-> FALSE],
               ast)

\* Separator sealing the current record
SeparatorSeals ==
  /\ At("Separator")
  /\ IF current = Null
     THEN Fail(ErrSeparator)
     ELSE Step(Null, [current EXCEPT !.sealed = TRUE], ast)

Separator ==
  /\ At("Separator")
  /\ IF current = Null
     THEN Fail(ErrSeparator)
     ELSE Step(Null, current, ast)

\* EOF without the push of ctx.current
EOFDropsCurrent ==
  /\ At("EOF")
  /\ annotation' = Null
  /\ current' = Null
  /\ ast' = ast
  /\ i' = i + 1
  /\ pc' = "analyse"
  /\ UNCHANGED <<source, nodes, units, err, notParse>>

\* EOF is the last node: the reduce returns and parse takes .ast
EOF ==
  /\ At("EOF")
  /\ annotation' = Null
  /\ current' = Null
  /\ ast' = append(ast, current)
  /\ i' = i + 1
  /\ pc' = "analyse"
  /\ UNCHANGED <<source, nodes, units, err, notParse>>

\* Line with the test of ctx.annotation inverted
LineSwapsPhases ==
  /\ At("Line")
  /\ IF current = Null
     THEN Fail(ErrDocBefore)
     ELSE IF annotation = Null
     THEN Step(annotation,
               [current EXCEPT !.meta = @ \o <<LF>> \o node.payload.val,
                               !.sealed = TRUE],
               ast)
     ELSE Step(Null,
               [current EXCEPT !.doc = @ \o <<LF>> \o node.payload.val,
                               !.sealed = TRUE],
               ast)

Line ==
  /\ At("Line")
  /\ IF current = Null
     THEN Fail(ErrDocBefore)
     ELSE IF annotation # Null
     THEN Step(annotation,
               [current EXCEPT !.meta = @ \o <<LF>> \o node.payload.val,
                               !.sealed = TRUE],
               ast)
     ELSE Step(Null,
               [current EXCEPT !.doc = @ \o <<LF>> \o node.payload.val,
                               !.sealed = TRUE],
               ast)

----------------------------------------------------------------------------
(* Compiler transformations: analyse *)

\* yaml.safeLoad on the metadata texts of the documents here: lines of
\* `key: value` are a mapping of plain and quoted scalars, in which a key
\* given twice is an error; lines without `: ` are one plain scalar
RECURSIVE Text(_)
Text(cs) ==
  IF cs = <<>> THEN "" ELSE cs[1] \o Text(Tail(cs))

RECURSIVE Trim(_)
Trim(s) ==
  IF s = <<>> THEN s
  ELSE IF s[1] = " " THEN Trim(Tail(s))
  ELSE IF s[Len(s)] = " " THEN Trim(SubSeq(s, 1, Len(s) - 1))
  ELSE s

\* the index of the colon that ends the key of a line, 0 when it has none
EntryColon(l) ==
  LET cs == { c \in 2..Len(l) :
                /\ l[c] = ":"
                /\ (c = Len(l) \/ l[c + 1] = " ") }
  IN  IF cs = {} THEN 0 ELSE CHOOSE c \in cs : \A d \in cs : c <= d

entryKey(l)   == Text(Trim(SubSeq(l, 1, EntryColon(l) - 1)))
entryValue(l) == Trim(SubSeq(l, EntryColon(l) + 1, Len(l)))

resolveScalar(s) ==
  IF s \in { <<>>, <<"~">>, <<"n", "u", "l", "l">> } THEN Null
  ELSE IF s = <<"t", "r", "u", "e">> THEN Bool(TRUE)
  ELSE IF s = <<"f", "a", "l", "s", "e">> THEN Bool(FALSE)
  ELSE IF Len(s) >= 2 /\ s[1] = "'" /\ s[Len(s)] = "'"
    THEN Str(SubSeq(s, 2, Len(s) - 1))
  ELSE Str(s)

ErrYAML == "YAMLException"

loadLines(ls) ==
  LET entries == { k \in 1..Len(ls) : EntryColon(ls[k]) > 0 }
  IN  IF ls = <<>> THEN Returned(Undefined)
      ELSE IF entries = {}
        THEN Returned(resolveScalar(join(ls, <<" ">>)))
      ELSE IF entries # 1..Len(ls)
        THEN Thrown([kind |-> ErrYAML, msg |-> "bad indentation of a mapping entry"])
      ELSE IF \E j \in entries, k \in entries :
                j # k /\ entryKey(ls[j]) = entryKey(ls[k])
        THEN Thrown([kind |-> ErrYAML, msg |-> "duplicated mapping key"])
      ELSE Returned(Obj([f \in { entryKey(ls[k]) : k \in entries } |->
                          resolveScalar(entryValue(
                            ls[CHOOSE k \in entries : entryKey(ls[k]) = f]))]))

safeLoad(text) ==
  LET nonBlank(l) == ~AllSpace(l)
  IN  The({ loadLines(ls) : ls \in { SelectSeq(split(text), nonBlank) } })

\* yaml.safeLoad(text) || {} with documentation set: the mapping is
\* determined by the metadata text, which stands for it here (metaOf gives
\* the mapping)
parseMetaFields(entity) ==
  [yaml |-> entity.meta, documentation |-> entity.doc]

parseMeta(entity) ==
  LET meta == parseMetaFields(entity) IN
  IF entity.multi
  THEN [k \in 1..Len(entity.ref.val) |->
          [title |-> Undefined, ref |-> Str(entity.ref.val[k].val), meta |-> meta]]
  ELSE << [title |-> entity.title, ref |-> entity.ref, meta |-> meta] >>

analyse(entities) ==
  flatten([k \in 1..Len(entities) |-> parseMeta(entities[k])])

\* the map of parseMeta stops at the first record whose metadata
\* yaml.safeLoad rejects
Analyse ==
  /\ pc = "analyse"
  /\ IF \E k \in 1..Len(ast) : ~safeLoad(ast[k].meta).ok
     THEN /\ units' = units
          /\ pc' = "error"
          /\ err' = safeLoad(ast[CHOOSE k \in 1..Len(ast) :
                                   /\ ~safeLoad(ast[k].meta).ok
                                   /\ \A j \in 1..(k - 1) :
                                        safeLoad(ast[j].meta).ok].meta).error
     ELSE /\ units' = analyse(ast)
          /\ pc' = "analysed"
          /\ err' = err
  /\ UNCHANGED <<source, nodes, i, annotation, current, ast, notParse>>

Next ==
  \/ Classify
  \/ Entity
  \/ Guide
  \/ Separator
  \/ EOF
  \/ Line
  \/ Analyse

Spec == Init /\ [][Next]_vars

----------------------------------------------------------------------------
(* Properties of parse and analyse *)

\* parse has returned its records
ParseReturned == pc \in {"analyse", "analysed"}

IsDirective(n) == n.tag \in {"Entity", "Guide"}

Tagged(tag) == { k \in 1..Len(nodes) : nodes[k].tag = tag }

\* C1: a @guide: directive processed while the phase is null and a current
\* record exists pushes that record onto the completed records
C1_GuidePushesPrevious ==
  [][ (At("Guide") /\ annotation = Null /\ current # Null)
        => ast' = Append(ast, current) ]_vars

\* an @annotate: at j, plain lines only from j+1 to k-1 (at least one), and
\* an @annotate: at k
SealedPair(j, k) ==
  /\ j + 1 < k
  /\ nodes[j].tag = "Entity"
  /\ nodes[k].tag = "Entity"
  /\ \A m \in (j + 1)..(k - 1) : nodes[m].tag = "Line"

\* C2: an @annotate: directive that follows an @annotate: directive and one
\* or more plain lines, with no separator in between, is never folded: the
\* reduce stops there with the error 'Multiple annotations have to follow
\* each other immediately' at that line
C2_SealedAnnotationRejected ==
  \A j \in 1..Len(nodes), k \in 1..Len(nodes) :
    SealedPair(j, k) =>
      /\ i < k
      /\ (i = k - 1 /\ pc # "reduce") =>
            /\ pc = "error"
            /\ err = [kind |-> "Error", msg |-> ErrImmediately, line |-> k]

C2_Witness ==
  /\ pc = "error"
  /\ err.kind = "Error"
  /\ err.msg = ErrImmediately
  /\ \E j \in 1..Len(nodes) : SealedPair(j, i + 1)

\* the number of @annotate: directives the document starts with
LeadingEntities ==
  Cardinality({ k \in 1..Len(nodes) :
                  \A m \in 1..k : nodes[m].tag = "Entity" })

\* the document is k >= 2 @annotate: directives and, after them, one body
GroupedDocument ==
  /\ LeadingEntities >= 2
  /\ \A m \in (LeadingEntities + 1)..Len(nodes) : ~IsDirective(nodes[m])

\* C3: k >= 2 @annotate: directives that follow each other immediately and
\* share one body give a single multi-ref record, whose references are the
\* k references in the order of the directives, and analyse expands it into
\* k units, one per reference in that order, with the same fields
C3_MultiRefExpansion ==
  GroupedDocument =>
    /\ ParseReturned =>
         /\ Len(ast) = 1
         /\ ast[1].multi
         /\ ast[1].ref = Arr([n \in 1..LeadingEntities |-> nodes[n].payload])
    /\ pc = "analysed" =>
         /\ Len(units) = LeadingEntities
         /\ \A n \in 1..Len(units) :
              /\ units[n].ref = nodes[n].payload
              /\ units[n].meta = units[1].meta
              /\ units[n].title = units[1].title
              /\ units[n].meta =
                   [yaml |-> ast[1].meta, documentation |-> ast[1].doc]

C3_Witness ==
  /\ pc = "analysed"
  /\ GroupedDocument
  /\ Len(units) = 2
  /\ units[1].ref # units[2].ref
  /\ units[1].meta.yaml # <<>>
  /\ units[1].meta.documentation # <<>>

\* only @annotate: directives, none of them directly after another one
UngroupedEntityDocument ==
  /\ Tagged("Guide") = {}
  /\ \A k \in 1..(Len(nodes) - 1) :
       ~(nodes[k].tag = "Entity" /\ nodes[k + 1].tag = "Entity")

\* C4: for a document that parses, with only @annotate: directives and no
\* multi-ref grouping, analyse(parse(document)) has as many units as the
\* document has directives
C4_UnitsEqualDirectives ==
  (pc = "analysed" /\ UngroupedEntityDocument) =>
    Len(units) = Cardinality(Tagged("Entity"))

C4_Witness ==
  /\ pc = "analysed"
  /\ UngroupedEntityDocument
  /\ Cardinality(Tagged("Entity")) >= 2
  /\ Len(units) >= 2

\* C5: an @annotate: directive processed in the guide phase fails, and a
\* @guide: directive processed in a non-null phase fails, whether or not
\* the current record is sealed
C5_GuideNeverGrouped ==
  [][ /\ (At("Entity") /\ annotation = Str("guide")) =>
            /\ pc' = "error"
            /\ err' = Throw(ErrOnlyEntities)
      /\ (At("Guide") /\ annotation # Null) =>
            /\ pc' = "error"
            /\ err' = Throw(ErrGuides) ]_vars

C5_Witness ==
  /\ pc = "error"
  /\ err.kind = "Error"
  /\ err.msg = ErrGuides
  /\ annotation = Str("entity")
  /\ ~current.sealed

\* the document has no directive line at all
NoDirectiveLine ==
  \A k \in 1..Len(split(source)) :
    /\ ~StartsWith(split(source)[k], ANNOTATE)
    /\ ~StartsWith(split(source)[k], GUIDE)

\* C7: parse accepts a document without directives, the empty document
\* included, and returns no record
C7_NoDirectiveAccepted ==
  NoDirectiveLine =>
    /\ pc # "error"
    /\ ParseReturned => ast = <<>>

----------------------------------------------------------------------------
(* classifyLine on its own, over lines built from the keywords *)

SuffixChars == {" ", "a", "-", LF}

Suffixes == UNION { [1..n -> SuffixChars] : n \in 0..MaxSuffix }

Prefixes == {<<>>, ANNOTATE, GUIDE, <<"@">>, <<"-", "-">>, <<"-", "-", "-">>}

ClassifyInputs == { p \o x : p \in Prefixes, x \in Suffixes }

InitClassify ==
  /\ line \in ClassifyInputs
  /\ kind = Null
  /\ pc = "classify"
  /\ err = NoError
  /\ ParseIdle
  /\ MineIdle
  /\ MetaIdle
  /\ RewriteIdle
  /\ LaterIdle

ClassifyLine ==
  /\ pc = "classify"
  /\ IF classifyLine(line).tag = "TypeError"
     THEN /\ pc' = "error"
          /\ err' = [kind |-> "TypeError", line |-> 1]
          /\ kind' = kind
     ELSE /\ pc' = "classified"
          /\ err' = err
          /\ kind' = classifyLine(line)
  /\ UNCHANGED <<line, parseVars, mineVars, metaVars, rewriteVars, laterVars>>

NextClassify == ClassifyLine

SpecClassify == InitClassify /\ [][NextClassify]_vars

LineKinds == {"Entity", "Guide", "Separator", "Line"}

\* C6: classifyLine never raises: every line is given one of the line
\* kinds, and a line that starts like a directive but fails the directive
\* pattern is a plain line
C6_ClassifyTotal ==
  /\ pc # "error"
  /\ pc = "classified" =>
       /\ kind.tag \in LineKinds
       /\ ( /\ StartsWith(line, ANNOTATE) \/ StartsWith(line, GUIDE)
            /\ kind.tag \notin {"Entity", "Guide"} )
          => kind = [tag |-> "Line", payload |-> Str(line)]

----------------------------------------------------------------------------
(* Examples: collectExamples *)

isExampleLeadingParagraph(tok) ==
  /\ tok # Undefined
  /\ tok.type \in {"paragraph", "heading"}
  \* /::\s*$/
  /\ \E p \in 1..(Len(tok.text) - 1) :
       /\ tok.text[p] = ":"
       /\ tok.text[p + 1] = ":"
       /\ AllSpace(SubSeq(tok.text, p + 2, Len(tok.text)))

\* the reducer with a code block captured whatever came before it
collectStepCapturesAll(acc, tok) ==
  IF tok.type = "code"
    THEN [acc EXCEPT !.current = Append(@, tok.text)]
  ELSE IF tok.type = "heading"
    THEN [examples |-> Append(acc.examples,
                              [name |-> acc.heading,
                               source |-> Str(join(acc.current, <<LF, LF>>))]),
          current |-> <<>>,
          heading |-> Str(tok.text),
          nextNodeIsExample |-> isExampleLeadingParagraph(tok)]
  ELSE IF tok.type = "paragraph"
    THEN [acc EXCEPT !.nextNodeIsExample = isExampleLeadingParagraph(tok)]
  ELSE [acc EXCEPT !.nextNodeIsExample = FALSE]

\* the reducer with the flag left set by a captured code block
collectStepStickyFlag(acc, tok) ==
  IF tok.type = "code"
    THEN IF acc.nextNodeIsExample
         THEN [acc EXCEPT !.current = Append(@, tok.text)]
         ELSE [acc EXCEPT !.nextNodeIsExample = FALSE]
  ELSE IF tok.type = "heading"
    THEN [examples |-> Append(acc.examples,
                              [name |-> acc.heading,
                               source |-> Str(join(acc.current, <<LF, LF>>))]),
          current |-> <<>>,
          heading |-> Str(tok.text),
          nextNodeIsExample |-> isExampleLeadingParagraph(tok)]
  ELSE IF tok.type = "paragraph"
    THEN [acc EXCEPT !.nextNodeIsExample = isExampleLeadingParagraph(tok)]
  ELSE [acc EXCEPT !.nextNodeIsExample = FALSE]

\* the reducer of collectExamples on [examples, current, heading,
\* nextNodeIsExample]
collectStep(acc, tok) ==
  IF tok.type = "code"
    THEN IF acc.nextNodeIsExample
         THEN [acc EXCEPT !.current = Append(@, tok.text),
                          !.nextNodeIsExample = FALSE]
         ELSE [acc EXCEPT !.nextNodeIsExample = FALSE]
  ELSE IF tok.type = "heading"
    THEN [examples |-> Append(acc.examples,
                              [name |-> acc.heading,
                               source |-> Str(join(acc.current, <<LF, LF>>))]),
          current |-> <<>>,
          heading |-> Str(tok.text),
          nextNodeIsExample |-> isExampleLeadingParagraph(tok)]
  ELSE IF tok.type = "paragraph"
    THEN [acc EXCEPT !.nextNodeIsExample = isExampleLeadingParagraph(tok)]
  ELSE [acc EXCEPT !.nextNodeIsExample = FALSE]

collectStart ==
  [examples |-> <<>>, current |-> <<>>, heading |-> Null,
   nextNodeIsExample |-> FALSE]

\* what follows the reduce
collectFinish(acc) ==
  IF Len(acc.current) = 0
  THEN acc.examples
  ELSE Append(acc.examples,
              [name |-> acc.heading,
               source |-> Str(join(acc.current, <<LF, ";", LF>>))])

RECURSIVE collectFold(_, _)
collectFold(acc, toks) ==
  IF toks = <<>> THEN acc
  ELSE collectFold(collectStep(acc, Head(toks)), Tail(toks))

collectExamples(toks) == collectFinish(collectFold(collectStart, toks))

\* the blocks a documentation is lexed into
TokenPool ==
  { [type |-> "heading",   text |-> <<"T", ":", ":">>],
    [type |-> "heading",   text |-> <<"U">>],
    [type |-> "paragraph", text |-> <<"p", ":", ":", " ">>],
    [type |-> "paragraph", text |-> <<"q", ":">>],
    [type |-> "code",      text |-> <<"x">>],
    [type |-> "code",      text |-> <<"y">>],
    [type |-> "space"] }

TokenSeqs == UNION { [1..k -> TokenPool] : k \in 0..MaxTokens }

InitMine ==
  /\ tokens \in TokenSeqs
  /\ tokenIndex = 0
  /\ examples = collectStart.examples
  /\ currentExample = collectStart.current
  /\ heading = collectStart.heading
  /\ nextNodeIsExample = collectStart.nextNodeIsExample
  /\ result = <<>>
  /\ pc = "collect"
  /\ err = NoError
  /\ ParseIdle
  /\ ClassifyIdle
  /\ MetaIdle
  /\ RewriteIdle
  /\ LaterIdle

token == tokens[tokenIndex + 1]

accumulator ==
  [examples |-> examples, current |-> currentExample, heading |-> heading,
   nextNodeIsExample |-> nextNodeIsExample]

AtToken(types) ==
  /\ pc = "collect"
  /\ tokenIndex < Len(tokens)
  /\ token.type \in types

Reduce ==
  /\ LET acc == collectStep(accumulator, token) IN
       /\ examples' = acc.examples
       /\ currentExample' = acc.current
       /\ heading' = acc.heading
       /\ nextNodeIsExample' = acc.nextNodeIsExample
  /\ tokenIndex' = tokenIndex + 1
  /\ UNCHANGED <<tokens, result, pc, err,
                 parseVars, classifyVars, metaVars, rewriteVars, laterVars>>

Code ==
  /\ AtToken({"code"})
  /\ Reduce

Heading ==
  /\ AtToken({"heading"})
  /\ Reduce

Paragraph ==
  /\ AtToken({"paragraph"})
  /\ Reduce

Other ==
  /\ AtToken({"space"})
  /\ Reduce

Collected ==
  /\ pc = "collect"
  /\ tokenIndex = Len(tokens)
  /\ result' = collectFinish(accumulator)
  /\ pc' = "collected"
  /\ UNCHANGED <<tokens, tokenIndex, examples, currentExample, heading,
                 nextNodeIsExample, err,
                 parseVars, classifyVars, metaVars, rewriteVars, laterVars>>

NextMine ==
  \/ Code
  \/ Heading
  \/ Paragraph
  \/ Other
  \/ Collected

SpecMine == InitMine /\ [][NextMine]_vars

\* a heading that ends in ::, two code blocks, a heading
MarkedTwoBlocks ==
  /\ Len(tokens) = 4
  /\ tokens[1].type = "heading"
  /\ isExampleLeadingParagraph(tokens[1])
  /\ tokens[2].type = "code"
  /\ tokens[3].type = "code"
  /\ tokens[4].type = "heading"

\* C8 as stated: a heading ending in ::, two code blocks and a heading give
\* exactly one candidate, the two blocks joined by a blank line
C8_TwoBlocksJoined ==
  (pc = "collected" /\ MarkedTwoBlocks) =>
    /\ Len(result) = 1
    /\ result[1].source =
         Str(tokens[2].text \o <<LF, LF>> \o tokens[3].text)

\* C8 amended: a heading ending in ::, two code blocks and a heading give
\* two candidates: the one the first heading closes, with no name and an
\* empty source, and one named by the first heading whose source is the
\* first code block alone; the second code block is not captured
C8_OnlyFirstBlockCaptured ==
  (pc = "collected" /\ MarkedTwoBlocks) =>
    result = << [name |-> Null, source |-> Str(<<>>)],
                [name |-> Str(tokens[1].text), source |-> Str(tokens[2].text)] >>

C8_Witness ==
  /\ pc = "collected"
  /\ MarkedTwoBlocks
  /\ tokens[2].text # tokens[3].text
  /\ Len(result) = 2

----------------------------------------------------------------------------
(* mergeMeta: the rewrite of the documentation *)

\* the lines of a text as ^ and $ see them under the m flag, each with the
\* line terminator that ends it
RECURSIVE SegmentsFrom(_, _, _, _)
SegmentsFrom(d, p, piece, out) ==
  IF p > Len(d) THEN Append(out, [text |-> piece, term |-> <<>>])
  ELSE IF IsLineTerminator(d[p])
    THEN SegmentsFrom(d, p + 1, <<>>,
                      Append(out, [text |-> piece, term |-> <<d[p]>>]))
  ELSE SegmentsFrom(d, p + 1, Append(piece, d[p]), out)

Segments(d) == SegmentsFrom(d, 1, <<>>, <<>>)

RECURSIVE Unsegment(_)
Unsegment(segs) ==
  IF segs = <<>> THEN <<>>
  ELSE Head(segs).text \o Head(segs).term \o Unsegment(Tail(segs))

IsBlank(c) == c \in {" ", "\t"}

\* the index at which /::[ \t]*$/ matches in a line, 0 when it does not
MarkerAt(l) ==
  LET ps == { p \in 1..(Len(l) - 1) :
                /\ l[p] = ":"
                /\ l[p + 1] = ":"
                /\ \A k \in (p + 2)..Len(l) : IsBlank(l[k]) }
  IN  IF ps = {} THEN 0
      ELSE CHOOSE p \in ps : \A q \in ps : p <= q

\* .replace(/^::$/gm, '') on one line
stripMarkerLine(l) ==
  IF l = <<":", ":">> THEN <<>> ELSE l

\* .replace(/::[ \t]*/gm, ':') on one line: the pattern without its $
RECURSIVE replaceEveryMarker(_)
replaceEveryMarker(l) ==
  IF Len(l) < 2 THEN l
  ELSE IF l[1] = ":" /\ l[2] = ":"
    THEN LET blanks == Cardinality({ k \in 3..Len(l) :
                                       \A m \in 3..k : IsBlank(l[m]) })
         IN  <<":">> \o replaceEveryMarker(SubSeq(l, 3 + blanks, Len(l)))
  ELSE <<l[1]>> \o replaceEveryMarker(Tail(l))

\* .replace(/::[ \t]*$/gm, ':') on one line
replaceTrailingMarker(l) ==
  IF MarkerAt(l) = 0 THEN l
  ELSE SubSeq(l, 1, MarkerAt(l) - 1) \o <<":">>

\* doc.replace(/^::$/gm, '').replace(/::[ \t]*$/gm, ':')
rewrite(d) ==
  LET first  == [k \in 1..Len(Segments(d)) |->
                   [Segments(d)[k] EXCEPT !.text = stripMarkerLine(@)]]
      second == [k \in 1..Len(first) |->
                   [first[k] EXCEPT !.text = replaceTrailingMarker(@)]]
  IN  Unsegment(second)

DocChars == {":", " ", "a", LF}

Docs == UNION { [1..k -> DocChars] : k \in 0..MaxDocLen }

InitRewrite ==
  /\ documentation \in Docs
  /\ once = <<>>
  /\ twice = <<>>
  /\ pc = "rewrite"
  /\ err = NoError
  /\ ParseIdle
  /\ ClassifyIdle
  /\ MineIdle
  /\ MetaIdle
  /\ LaterIdle

Rewrite ==
  /\ pc = "rewrite"
  /\ once' = rewrite(documentation)
  /\ pc' = "again"
  /\ UNCHANGED <<documentation, twice, err,
                 parseVars, classifyVars, mineVars, metaVars, laterVars>>

RewriteAgain ==
  /\ pc = "again"
  /\ twice' = rewrite(once)
  /\ pc' = "rewritten"
  /\ UNCHANGED <<documentation, once, err,
                 parseVars, classifyVars, mineVars, metaVars, laterVars>>

NextRewrite ==
  \/ Rewrite
  \/ RewriteAgain

SpecRewrite == InitRewrite /\ [][NextRewrite]_vars

\* C10 as stated: the rewrite of the documentation is idempotent
C10_RewriteIdempotent ==
  pc = "rewritten" => twice = once

\* a line of the documentation ends in three colons (and blanks)
EndsInThreeColons(d) ==
  \E k \in 1..Len(Segments(d)) :
    LET l == Segments(d)[k].text IN
      /\ MarkerAt(l) > 1
      /\ l[MarkerAt(l) - 1] = ":"

\* C10 amended: the rewrite is idempotent on every documentation in which
\* no line ends in three or more colons followed by optional spaces or tabs
C10_IdempotentWithoutThreeColons ==
  (pc = "rewritten" /\ ~EndsInThreeColons(documentation)) => twice = once

C10_Witness ==
  /\ pc = "rewritten"
  /\ ~EndsInThreeColons(documentation)
  /\ \E k \in 1..Len(Segments(documentation)) :
       Segments(documentation)[k].text = <<":", ":">>
  /\ \E k \in 1..Len(Segments(documentation)) :
       MarkerAt(Segments(documentation)[k].text) > 1
  /\ twice = once
  /\ once # documentation

----------------------------------------------------------------------------
(* mergeMeta *)

\* object[key]
get(object, k) ==
  IF k \in DOMAIN object THEN object[k] ELSE Undefined

\* Object.assign of b onto a
assign(a, b) ==
  [k \in DOMAIN a \cup DOMAIN b |-> IF k \in DOMAIN b THEN b[k] ELSE a[k]]

RECURSIVE merge(_)
merge(objects) ==
  IF objects = <<>> THEN <<>>
  ELSE assign(merge(SubSeq(objects, 1, Len(objects) - 1)),
              objects[Len(objects)])

DEPRECATED == <<"d", "e", "p", "r", "e", "c", "a", "t", "e", "d">>

\* inferDeprecated with the arguments of merge exchanged
inferDeprecatedKeepsStability(meta) ==
  IF Truthy(get(meta, "deprecated"))
  THEN merge(<< [stability |-> Str(DEPRECATED)], meta >>)
  ELSE meta

inferDeprecated(meta) ==
  IF Truthy(get(meta, "deprecated"))
  THEN merge(<< meta, [stability |-> Str(DEPRECATED)] >>)
  ELSE meta

inferMetadataFromProvidedMetadata(meta) == inferDeprecated(meta)

\* documentation texts, as parse builds them from the lines of a document,
\* and the blocks marked.lexer gives for each
DocMarkedParagraph ==
  <<LF, "p", ":", ":", LF, LF, " ", " ", " ", " ", "x">>
DocMarkerLine ==
  <<LF, ":", ":", LF, LF, " ", " ", " ", " ", "x">>
DocPlain ==
  <<LF, "q">>

\* the text is a line terminator and then lines of plain words: one paragraph
IsParagraph(doc) ==
  /\ Len(doc) > 1
  /\ doc[1] = LF
  /\ \A k \in 2..Len(doc) : doc[k] \in Letters \cup {":", " ", LF}
  /\ \A k \in 2..Len(doc) :
       /\ doc[k] = ":" => (k < Len(doc) /\ doc[k + 1] = " ")
       /\ doc[k] = LF => (k < Len(doc) /\ doc[k + 1] \notin {LF, " "})
  /\ doc[2] \notin {LF, " "}

lexer(doc) ==
  CASE doc = DocMarkedParagraph ->
         << [type |-> "paragraph", text |-> <<"p", ":", ":">>],
            [type |-> "code", text |-> <<"x">>] >>
    [] doc = DocMarkerLine ->
         << [type |-> "paragraph", text |-> <<":", ":">>],
            [type |-> "code", text |-> <<"x">>] >>
    [] doc = DocPlain ->
         << [type |-> "paragraph", text |-> <<"q">>] >>
    [] doc = <<>> -> <<>>
    [] IsParagraph(doc) ->
         << [type |-> "paragraph", text |-> Tail(doc)] >>

\* the example is parsed as JavaScript and wrapped into a function with its
\* source as metadata; the sources here are expressions that parse
parseExample(e) ==
  Obj([name |-> IF Truthy(e.name) THEN e.name ELSE Str(<<>>),
       call |-> Raw(e.source),
       inferred |-> Bool(TRUE)])

inferExamples(doc) ==
  LET found == collectExamples(lexer(doc)) IN
  IF Len(found) > 0
  THEN [examples |-> Arr([k \in 1..Len(found) |-> parseExample(found[k])])]
  ELSE <<>>

\* valueToLiteral has a literal for the value
RECURSIVE Supported(_)
Supported(v) ==
  CASE v.type \in {"raw", "string", "boolean", "number"} -> TRUE
    [] v.type = "array" -> \A k \in 1..Len(v.val) : Supported(v.val[k])
    [] v.type = "object" -> \A k \in DOMAIN v.val : Supported(v.val[k])
    [] OTHER -> FALSE

Absent == [type |-> "absent"]

MetaObject(d, s, doc) ==
  LET all == [deprecated |-> d, stability |-> s, documentation |-> doc]
  IN  [k \in { f \in DOMAIN all : all[f] # Absent } |-> all[k]]

MetaObjects ==
  { MetaObject(d, s, doc) :
      d \in {Absent, Bool(TRUE), Bool(FALSE), Str(<<>>), Num(1), Null},
      s \in {Absent, Str(<<"s", "t", "a", "b", "l", "e">>)},
      doc \in {Absent, Str(DocMarkedParagraph), Str(DocMarkerLine),
               Str(DocPlain)} }

InitMergeMeta ==
  /\ args \in UNION { [1..k -> MetaObjects] : k \in 1..MaxArgs }
  /\ fullMeta = <<>>
  /\ emitted = <<>>
  /\ pc = "merge"
  /\ err = NoError
  /\ ParseIdle
  /\ ClassifyIdle
  /\ MineIdle
  /\ RewriteIdle
  /\ LaterIdle

notMeta == <<parseVars, classifyVars, mineVars, rewriteVars, laterVars>>

Merge ==
  /\ pc = "merge"
  /\ fullMeta' = merge(args)
  /\ pc' = "infer"
  /\ UNCHANGED <<args, emitted, err, notMeta>>

InferMetadata ==
  /\ pc = "infer"
  /\ fullMeta' = inferMetadataFromProvidedMetadata(fullMeta)
  /\ pc' = "document"
  /\ UNCHANGED <<args, emitted, err, notMeta>>

InferDocumentation ==
  /\ pc = "document"
  /\ IF Truthy(get(fullMeta, "documentation"))
     THEN LET doc == fullMeta["documentation"].val IN
          fullMeta' = [merge(<< fullMeta, inferExamples(doc) >>)
                         EXCEPT !["documentation"] = Str(rewrite(doc))]
     ELSE fullMeta' = fullMeta
  /\ pc' = "emit"
  /\ UNCHANGED <<args, emitted, err, notMeta>>

\* objectToExpression: a property per pair, or the TypeError of
\* valueToLiteral
Emit ==
  /\ pc = "emit"
  /\ IF \A k \in DOMAIN fullMeta : Supported(fullMeta[k])
     THEN /\ emitted' = fullMeta
          /\ pc' = "emitted"
          /\ err' = err
     ELSE /\ emitted' = emitted
          /\ pc' = "error"
          /\ err' = [kind |-> "TypeError", line |-> 0]
  /\ UNCHANGED <<args, fullMeta, notMeta>>

NextMergeMeta ==
  \/ Merge
  \/ InferMetadata
  \/ InferDocumentation
  \/ Emit

SpecMergeMeta == InitMergeMeta /\ [][NextMergeMeta]_vars

\* C9: when the merged metadata has a truthy deprecated field, stability is
\* "deprecated" after the inference from the metadata, whatever stability
\* the metadata had, stays so through the inference of the examples and the
\* rewrite of the documentation, and is so in the fields emitted
C9_DeprecatedOverrides ==
  Truthy(get(merge(args), "deprecated")) =>
    /\ pc \in {"document", "emit", "emitted"} =>
         get(fullMeta, "stability") = Str(DEPRECATED)
    /\ pc = "emitted" =>
         get(emitted, "stability") = Str(DEPRECATED)

C9_Witness ==
  /\ pc = "emitted"
  /\ Truthy(get(merge(args), "deprecated"))
  /\ Truthy(get(merge(args), "stability"))
  /\ get(merge(args), "stability") # Str(DEPRECATED)
  /\ "examples" \in DOMAIN emitted
  /\ emitted["documentation"] # merge(args)["documentation"]

----------------------------------------------------------------------------
(* Properties of the reduce of parse *)

\* C15: a plain line goes to the metadata text only while the phase is
\* non-null and to the documentation text only while it is null, and
\* whenever the phase is non-null there is a current record whose
\* documentation text is empty
C15_PhasedAccumulation ==
  /\ [](annotation # Null => (current # Null /\ current.doc = <<>>))
  /\ [][ (At("Line") /\ current # Null) =>
           IF annotation # Null
           THEN /\ current'.meta = current.meta \o <<LF>> \o node.payload.val
                /\ current'.doc = current.doc
           ELSE /\ current'.doc = current.doc \o <<LF>> \o node.payload.val
                /\ current'.meta = current.meta ]_vars

C15_Witness ==
  /\ pc = "reduce"
  /\ current # Null
  /\ current.meta # <<>>
  /\ current.doc # <<>>

\* C18: a Separator with a current record sets the phase to null and
\* changes nothing else: the current record, with its texts and flags, and
\* the completed records stay as they are
C18_SeparatorOnlyClearsPhase ==
  [][ (At("Separator") /\ current # Null) =>
        /\ annotation' = Null
        /\ current' = current
        /\ ast' = ast
        /\ pc' = pc ]_vars

\* a separator has just been folded after documentation had started
C18_Witness ==
  /\ pc = "reduce"
  /\ i >= 1
  /\ nodes[i].tag = "Separator"
  /\ annotation = Null
  /\ current # Null
  /\ current.doc # <<>>
  /\ ~current.multi

----------------------------------------------------------------------------
(* Properties of the reduce of collectExamples *)

\* the text ends in ::, white space after it not counted
VisiblyEndsInMarker(text) ==
  \E m \in 2..Len(text) :
    /\ text[m - 1] = ":"
    /\ text[m] = ":"
    /\ \A k \in (m + 1)..Len(text) : IsSpace(text[k])

\* the block before the one the reduce is at is a paragraph or a heading
\* that ends in ::
PrecededByMarker ==
  /\ tokenIndex >= 1
  /\ tokens[tokenIndex].type \in {"paragraph", "heading"}
  /\ VisiblyEndsInMarker(tokens[tokenIndex].text)

\* C16: a code block is captured if and only if the block right before it
\* is a paragraph or a heading whose text ends in ::, so never after a code
\* block or another kind of block, and every heading empties the captured
\* source
C16_CapturedIffAfterMarker ==
  [][ /\ AtToken({"code"}) =>
           currentExample' = IF PrecededByMarker
                             THEN Append(currentExample, token.text)
                             ELSE currentExample
      /\ AtToken({"heading"}) => currentExample' = <<>> ]_vars

\* a code block after a captured code block has been folded and left out
C16_Witness ==
  /\ pc = "collect"
  /\ tokenIndex >= 3
  /\ tokens[tokenIndex].type = "code"
  /\ tokens[tokenIndex - 1].type = "code"
  /\ tokens[tokenIndex - 2].type \in {"paragraph", "heading"}
  /\ currentExample = <<tokens[tokenIndex - 1].text>>

\* C17: every candidate collectExamples returns has a non-empty source, so
\* a documentation in which no code block is captured gives no candidate
C17_NonEmptySources ==
  pc = "collected" =>
    /\ \A k \in 1..Len(result) : result[k].source # Str(<<>>)
    /\ (\A k \in 1..Len(tokens) : tokens[k].type # "code") => result = <<>>

----------------------------------------------------------------------------
(* Parser: parse as a function of the document *)

\* the reducer of parse on [annotation, current, ast] at the node of index
\* n; error is what the reducer threw, NoError while it threw nothing
parseStep(ctx, nd, n) ==
  LET fail(msg) ==
        [ctx EXCEPT !.error = [kind |-> "Error", msg |-> msg, line |-> n]]
      step(a, c, s) ==
        [annotation |-> a, current |-> c, ast |-> s, error |-> NoError]
      record(title, ref, multi) ==
        [title |-> title, ref |-> ref, meta |-> <<>>, doc |-> <<>>,
         multi |-> multi, sealed |-> FALSE]
  IN
  IF ctx.error # NoError THEN ctx
  ELSE IF nd.tag = "Entity" THEN
    IF ctx.annotation # Null
    THEN IF ctx.annotation # Str("entity") THEN fail(ErrOnlyEntities)
         ELSE IF ~ctx.current.sealed
         THEN step(Str("entity"),
                   record(Undefined,
                          Arr(intoArray(ctx.current.ref).val \o <<nd.payload>>),
                          TRUE),
                   ctx.ast)
         ELSE fail(ErrImmediately)
    ELSE step(Str("entity"), record(Undefined, nd.payload, FALSE),
              append(ctx.ast, ctx.current))
  ELSE IF nd.tag = "Guide" THEN
    IF ctx.annotation # Null THEN fail(ErrGuides)
    ELSE step(Str("guide"), record(nd.payload, Undefined, FALSE), ctx.ast)
  ELSE IF nd.tag = "Separator" THEN
    IF ctx.current = Null THEN fail(ErrSeparator)
    ELSE step(Null, ctx.current, ctx.ast)
  ELSE IF nd.tag = "EOF" THEN
    step(Null, Null, append(ctx.ast, ctx.current))
  ELSE
    IF ctx.current = Null THEN fail(ErrDocBefore)
    ELSE IF ctx.annotation # Null
    THEN step(ctx.annotation,
              [ctx.current EXCEPT !.meta = @ \o <<LF>> \o nd.payload.val,
                                  !.sealed = TRUE],
              ctx.ast)
    ELSE step(Null,
              [ctx.current EXCEPT !.doc = @ \o <<LF>> \o nd.payload.val,
                                  !.sealed = TRUE],
              ctx.ast)

RECURSIVE parseFold(_, _, _)
parseFold(ctx, ns, n) ==
  IF n > Len(ns) THEN ctx
  ELSE parseFold(parseStep(ctx, ns[n], n), ns, n + 1)

\* parse(source): .ast when .error is NoError, and the error thrown otherwise
parse(s) ==
  LET cs == Classified(s) IN
  IF \E k \in 1..Len(cs) : cs[k].tag = "TypeError"
  THEN [annotation |-> Null, current |-> Null, ast |-> <<>>,
        error |-> [kind |-> "TypeError",
                   line |-> CHOOSE k \in 1..Len(cs) :
                              /\ cs[k].tag = "TypeError"
                              /\ \A j \in 1..(k - 1) : cs[j].tag # "TypeError"]]
  ELSE parseFold([annotation |-> Null, current |-> Null, ast |-> <<>>,
                  error |-> NoError],
                 append(cs, [tag |-> "EOF"]), 1)

\* the function gives what the steps of the reduce give
ParseAgrees ==
  /\ pc \in {"analyse", "analysed"} =>
       /\ parse(source).error = NoError
       /\ parse(source).ast = ast
  /\ pc = "error" => parse(source).error = err

----------------------------------------------------------------------------
(* Code generation: valueToLiteral *)

MaxElements == 2

\* the expressions babylon parses here: an identifier or a member of one
Identifiers == { <<"a">>, <<"b">>, <<"p">>,
                 <<"f", "o", "l", "k", "t", "a", "l", "e">> }

References ==
  Identifiers \cup { x \o <<".">> \o y : x \in Identifiers, y \in Identifiers }

\* sources babylon rejects
Malformed == { <<")">>, <<"a", ".">> }

ErrUnableToParse == "Unable to parse JS annotation"

parseJsExpr(s) ==
  CASE s \in References ->
         Returned([node |-> "Expression", source |-> s])
    [] s \in Malformed ->
         Thrown([kind |-> "SyntaxError", msg |-> ErrUnableToParse])

lazy(expr) ==
  [node |-> "FunctionExpression", params |-> <<>>,
   body |-> << [node |-> "ReturnStatement", argument |-> expr] >>]

\* specialParsers['~belongsTo'](value): the parse it calls is the parser of
\* documents, so it is given a string that is read as a document, and what
\* parse returns is an array of records, which has no program
belongsTo(v) ==
  IF v.type # "string"
  THEN Thrown([kind |-> "TypeError", msg |-> "source.split is not a function"])
  ELSE IF parse(v.val).error # NoError
  THEN Thrown(parse(v.val).error)
  ELSE Thrown([kind |-> "TypeError",
               msg |-> "Cannot read property 'body' of undefined"])

specialParsers == {"~belongsTo"}

\* no key is given for the elements of an array
NoKey == ""

isSpecial(k) == k # NoKey /\ k \in specialParsers

parseSpecialProperty(v, k) == belongsTo(v)

ErrNotSupported == "Type of property not supported"

RECURSIVE valueToLiteral(_, _)
RECURSIVE objectToExpression(_)

\* a property per pair; the first pair that throws ends the map
objectToExpression(o) ==
  The({ IF \E k \in DOMAIN ps : ~ps[k].ok
        THEN ps[CHOOSE k \in DOMAIN ps : ~ps[k].ok]
        ELSE Returned([node |-> "ObjectExpression",
                       properties |-> [k \in DOMAIN ps |-> ps[k].expr]]) :
          ps \in { [k \in DOMAIN o |-> valueToLiteral(o[k], k)] } })

valueToLiteral(v, k) ==
  IF v.type = "raw" THEN Returned(v.val)
  ELSE IF v.type = "array" THEN
    The({ IF \E n \in 1..Len(es) : ~es[n].ok
          THEN es[CHOOSE n \in 1..Len(es) :
                    ~es[n].ok /\ \A m \in 1..(n - 1) : es[m].ok]
          ELSE Returned([node |-> "ArrayExpression",
                         elements |-> [n \in 1..Len(es) |-> es[n].expr]]) :
            es \in { [n \in 1..Len(v.val) |->
                        valueToLiteral(v.val[n], NoKey)] } })
  ELSE IF isSpecial(k) THEN parseSpecialProperty(v, k)
  ELSE IF v.type = "string"
    THEN Returned([node |-> "StringLiteral", value |-> v.val])
  ELSE IF v.type = "boolean"
    THEN Returned([node |-> "BooleanLiteral", value |-> v.val])
  ELSE IF v.type = "number"
    THEN Returned([node |-> "NumericLiteral", value |-> v.val])
  ELSE IF v.type = "object" THEN objectToExpression(v.val)
  ELSE Thrown([kind |-> "TypeError", msg |-> ErrNotSupported])

\* the fields valueToLiteral is given
Keys == {"~belongsTo", "name", NoKey}

Scalars ==
  { Str(<<"a">>), Str(<<"a", ".", "b">>), Str(<<>>), Str(AnnotateA),
    Bool(TRUE), Num(1), Null, Undefined, Raw(Str(<<"x">>)) }

Values ==
  Scalars
    \cup { Arr(xs) : xs \in UNION { [1..n -> Scalars] : n \in 0..MaxElements } }
    \cup { Obj(o) : o \in UNION { [K -> Scalars] :
                                   K \in SUBSET {"~belongsTo", "name"} } }

InitLiteral ==
  /\ key \in Keys
  /\ value \in Values
  /\ literal = Null
  /\ pc = "literal"
  /\ err = NoError
  /\ ParseIdle
  /\ ClassifyIdle
  /\ MineIdle
  /\ MetaIdle
  /\ RewriteIdle
  /\ WithMetaIdle
  /\ RuntimeIdle
  /\ GenerateIdle

ValueToLiteral ==
  /\ pc = "literal"
  /\ IF valueToLiteral(value, key).ok
     THEN /\ literal' = valueToLiteral(value, key).expr
          /\ pc' = "returned"
          /\ err' = err
     ELSE /\ literal' = literal
          /\ pc' = "error"
          /\ err' = valueToLiteral(value, key).error
  /\ UNCHANGED <<key, value, parseVars, classifyVars, mineVars, metaVars,
                 rewriteVars, withMetaVars, runtimeVars, generateVars>>

NextLiteral == ValueToLiteral

SpecLiteral == InitLiteral /\ [][NextLiteral]_vars

\* C11: a field with the key ~belongsTo and a reference expression as its
\* value is emitted without an error, as a function expression with no
\* parameter that returns the parsed reference
C11_SpecialFieldLazy ==
  ( /\ pc # "literal"
    /\ key = "~belongsTo"
    /\ value.type = "string"
    /\ value.val \in References )
  => /\ pc = "returned"
     /\ literal = lazy(parseJsExpr(value.val).expr)

----------------------------------------------------------------------------
(* Runtime: __metamagical_withMeta *)

MaxObjects == 3
MaxCalls   == 3

Objects == 1..MaxObjects

\* the prototype of an object that has none with metadata, and the value of
\* a @@meta:magical property that was never set
NoObject  == 0
NoMapping == 0

\* object[Symbol.for('@@meta:magical')]: the own property, or else the
\* property of the nearest prototype that has one
RECURSIVE lookupIn(_, _, _)
lookupIn(pr, mg, o) ==
  IF o = NoObject THEN NoMapping
  ELSE IF mg[o] # NoMapping THEN mg[o]
  ELSE lookupIn(pr, mg, pr[o])

lookup(o) == lookupIn(proto, magical, o)

\* a mapping allocated by {}
fresh == Len(store) + 1

\* oldMeta without the test of the prototype
oldMetaShared(object) ==
  IF lookup(object) = NoMapping THEN fresh ELSE lookup(object)

\* the mapping the keys are written to
oldMeta(object) ==
  LET parent == proto[object]
      found  == IF lookup(object) = NoMapping THEN fresh ELSE lookup(object)
  IN  IF parent # NoObject /\ lookup(parent) = found THEN fresh ELSE found

\* key.slice(1) when /^~/ matches
plainKey(k) ==
  IF Len(k) > 0 /\ k[1] = "~" THEN Tail(k) ELSE k

\* the keys of meta written onto a mapping
written(mapping, meta) ==
  [k \in DOMAIN mapping \cup { plainKey(m) : m \in DOMAIN meta } |->
     IF \E m \in DOMAIN meta : plainKey(m) = k
     THEN meta[CHOOSE m \in DOMAIN meta : plainKey(m) = k]
     ELSE mapping[k]]

\* the metadata objects of one key a call is given
Metas ==
  { k :> v : k \in { <<"k">>, <<"~", "k">> }, v \in { Num(1), Num(2) } }

InitWithMeta ==
  /\ proto \in { f \in [Objects -> {NoObject} \cup Objects] :
                   \A o \in Objects : f[o] < o }
  /\ magical = [o \in Objects |-> NoMapping]
  /\ store = <<>>
  /\ calls = <<>>
  /\ pc = "withMeta"
  /\ err = NoError
  /\ ParseIdle
  /\ ClassifyIdle
  /\ MineIdle
  /\ MetaIdle
  /\ RewriteIdle
  /\ LiteralIdle
  /\ RuntimeIdle
  /\ GenerateIdle

WithMeta ==
  /\ pc = "withMeta"
  /\ Len(calls) < MaxCalls
  /\ \E object \in Objects, meta \in Metas :
       LET target == oldMeta(object) IN
         /\ store' = IF target = fresh
                     THEN Append(store, written(<<>>, meta))
                     ELSE [store EXCEPT ![target] = written(@, meta)]
         /\ magical' = [magical EXCEPT ![object] = target]
         /\ calls' = Append(calls, [object |-> object, meta |-> meta])
  /\ UNCHANGED <<proto, pc, err, parseVars, classifyVars, mineVars, metaVars,
                 rewriteVars, literalVars, runtimeVars, generateVars>>

NextWithMeta == WithMeta

SpecWithMeta == InitWithMeta /\ [][NextWithMeta]_vars

RECURSIVE Ancestors(_)
Ancestors(o) ==
  IF proto[o] = NoObject THEN {}
  ELSE {proto[o]} \cup Ancestors(proto[o])

\* the mapping the object sees is the one its prototype sees
SeesPrototypeMapping(o) ==
  /\ proto[o] # NoObject
  /\ lookup(o) # NoMapping
  /\ lookup(proto[o]) = lookup(o)

\* C20: a call of __metamagical_withMeta on an object leaves the mapping of
\* every prototype ancestor of the object as it was, and when the object
\* sees the mapping its prototype sees, the object gets a mapping allocated
\* by the call, and every mapping there was stays unchanged
C20_AncestorMappingKept ==
  [][ calls' # calls =>
        LET o == calls'[Len(calls')].object IN
          /\ \A a \in Ancestors(o) :
               /\ lookupIn(proto', magical', a) = lookup(a)
               /\ lookup(a) # NoMapping => store'[lookup(a)] = store[lookup(a)]
          /\ SeesPrototypeMapping(o) =>
               /\ magical'[o] = Len(store) + 1
               /\ Len(store') = Len(store) + 1
               /\ \A id \in 1..Len(store) : store'[id] = store[id] ]_vars

\* the last call was on an object that saw the mapping of its prototype:
\* the object has a later mapping of its own, with other contents
C20_Witness ==
  /\ Len(calls) >= 2
  /\ LET o == calls[Len(calls)].object IN
       /\ proto[o] # NoObject
       /\ lookup(proto[o]) # NoMapping
       /\ magical[o] = Len(store)
       /\ magical[o] > lookup(proto[o])
       /\ store[magical[o]] # store[lookup(proto[o])]
       /\ \A k \in 1..(Len(calls) - 1) : calls[k].object # o

----------------------------------------------------------------------------
(* Code generation: generateEntity and generate *)

MaxRecords       == 2
MaxPipelineLines == 5

\* the meta of a unit as a value: yaml.safeLoad(entity.meta) || {} with
\* documentation assigned; the assignment to a scalar has no effect
metaOf(m) ==
  The({ IF Truthy(loaded)
        THEN IF loaded.type = "object"
             THEN Obj(assign(loaded.val,
                             [documentation |-> Str(m.documentation)]))
             ELSE loaded
        ELSE Obj([documentation |-> Str(m.documentation)]) :
          loaded \in { safeLoad(m.yaml).expr } })

\* the own enumerable properties Object.assign copies: those of an object,
\* and the characters of a string by index
properties(v) ==
  IF v.type = "object" THEN v.val
  ELSE IF v.type = "string"
    THEN [k \in { ToString(n - 1) : n \in 1..Len(v.val) } |->
            Str(<< v.val[CHOOSE n \in 1..Len(v.val) : ToString(n - 1) = k] >>)]
  ELSE <<>>

\* value[key]
field(v, k) ==
  IF v.type = "object" THEN get(v.val, k) ELSE Undefined

\* mergeMeta(options, ...objects): the object expression, or what
\* valueToLiteral threw
inferFromDocumentation(full) ==
  LET doc == get(full, "documentation")
  IN  IF Truthy(doc)
      THEN [merge(<< full, inferExamples(doc.val) >>)
              EXCEPT !["documentation"] = Str(rewrite(doc.val))]
      ELSE full

mergeMeta(objects) ==
  The({ objectToExpression(full) :
          full \in { inferFromDocumentation(merged) :
                       merged \in { inferMetadataFromProvidedMetadata(
                                      merge(objects)) } } })

\* the steps of mergeMeta give what the function gives
MergeMetaAgrees ==
  /\ pc = "emitted" => mergeMeta(args) = objectToExpression(emitted)
  /\ pc = "error" => ~mergeMeta(args).ok

FOLKTALE == <<"f", "o", "l", "k", "t", "a", "l", "e">>
GUIDES   == <<"g", "u", "i", "d", "e", "s">>

\* the statement of a template, or what building one of its parts threw
statement(name, target, OBJECT) ==
  IF ~target.ok THEN target
  ELSE IF ~OBJECT.ok THEN OBJECT
  ELSE Returned(target.expr @@ [template |-> name, OBJECT |-> OBJECT.expr])

\* the branch of generateEntity for a reference
generateReference(entity, meta) ==
  The({ statement("annotateEntity",
                  IF ENTITY.ok THEN Returned([ENTITY |-> ENTITY.expr])
                               ELSE ENTITY,
                  OBJECT) :
          ENTITY \in { parseJsExpr(entity.ref.val) },
          OBJECT \in { mergeMeta(<< properties(meta) >>) } })

\* the parent of a guide with the metadata never consulted
parentOfAlwaysRoot(meta) == Str(FOLKTALE)

\* entity.meta.parent || 'folktale'
parentOf(meta) ==
  IF Truthy(field(meta, "parent")) THEN field(meta, "parent")
  ELSE Str(FOLKTALE)

\* the branch of generateEntity for a title
generateGuide(entity, meta) ==
  The({ statement("annotateGuide",
                  IF PARENT.ok
                  THEN Returned([GUIDE |-> [node |-> "StringLiteral",
                                            value |-> entity.title.val],
                                 PARENT |-> PARENT.expr])
                  ELSE PARENT,
                  OBJECT) :
          PARENT \in { IF parentOf(meta).type = "string"
                       THEN parseJsExpr(parentOf(meta).val)
                       ELSE Thrown([kind |-> "TypeError",
                                    msg |-> "the source is not a string"]) },
          OBJECT \in { mergeMeta(<< merge(<< properties(meta),
                                             [name |-> entity.title,
                                              module |-> Str(GUIDES)] >>) >>) } })

generateEntity(entity) ==
  The({ IF Truthy(entity.ref) THEN generateReference(entity, meta)
        ELSE IF Truthy(entity.title) THEN generateGuide(entity, meta)
        ELSE Returned(Undefined) :
          meta \in { metaOf(entity.meta) } })

\* entities.map(x => generateEntity(x, options)): the statements, or what
\* the first entity that fails threw
RECURSIVE generateAll(_)
generateAll(entities) ==
  IF entities = <<>> THEN Returned(<<>>)
  ELSE LET first == generateEntity(Head(entities)) IN
       IF ~first.ok THEN first
       ELSE LET rest == generateAll(Tail(entities)) IN
            IF ~rest.ok THEN rest
            ELSE Returned(<<first.expr>> \o rest.expr)

\* the lines documents are written with
AnnotateBad == ANNOTATE \o <<" ", ")">>
ParentP     == <<"p", "a", "r", "e", "n", "t", ":", " ", "p">>
ParentEmpty == <<"p", "a", "r", "e", "n", "t", ":", " ", "'", "'">>
NameN       == <<"n", "a", "m", "e", ":", " ", "n">>

MetaBlocks ==
  { <<>>, <<ParentP>>, <<ParentEmpty>>, <<NameN>>, <<ParentP, NameN>> }

DocBlocks ==
  { <<>>, <<<<"q">>>>, << <<"p", ":", ":">>, <<>>, <<" ", " ", " ", " ", "x">> >> }

\* a directive, its metadata, the separator and its documentation
Blocks ==
  { <<GuideG>> \o m \o <<Dashes>> \o d : m \in MetaBlocks, d \in DocBlocks }
    \cup { <<AnnotateA>> \o m \o <<Dashes>> \o d :
             m \in { <<>>, <<ParentP>> }, d \in { <<>>, <<<<"q">>>> } }
    \cup { <<AnnotateA, AnnotateB, Dashes>> }

GenerateDocuments ==
  { JoinLines(flatten(bs)) :
      bs \in UNION { [1..n -> Blocks] : n \in 1..MaxRecords } }

notGenerate == <<classifyVars, mineVars, metaVars, rewriteVars,
                 literalVars, withMetaVars, runtimeVars>>

\* the state in which parse has returned the records of a document
InitGenerate ==
  /\ source \in GenerateDocuments
  /\ nodes = append(Classified(source), [tag |-> "EOF"])
  /\ i = Len(nodes)
  /\ annotation = Null
  /\ current = Null
  /\ ast = parse(source).ast
  /\ units = <<>>
  /\ statements = <<>>
  /\ output = Null
  /\ pc = "analyse"
  /\ err = NoError
  /\ ClassifyIdle
  /\ MineIdle
  /\ MetaIdle
  /\ RewriteIdle
  /\ LiteralIdle
  /\ WithMetaIdle
  /\ RuntimeIdle

\* the map of generateEntity going on after a unit that fails
GenerateEntitySkipsFailure ==
  /\ pc = "analysed"
  /\ Len(statements) < Len(units)
  /\ \E made \in { generateEntity(units[Len(statements) + 1]) } :
       statements' = Append(statements,
                            IF made.ok THEN made.expr ELSE Undefined)
  /\ UNCHANGED <<output, pc, err, parseVars, notGenerate>>

\* the map of generateEntity at a unit
GenerateEntity ==
  /\ pc = "analysed"
  /\ Len(statements) < Len(units)
  /\ \E made \in { generateEntity(units[Len(statements) + 1]) } :
       IF made.ok
       THEN /\ statements' = Append(statements, made.expr)
            /\ pc' = pc
            /\ err' = err
       ELSE /\ statements' = statements
            /\ pc' = "error"
            /\ err' = made.error
  /\ UNCHANGED <<output, parseVars, notGenerate>>

\* generateJs(t.program([...])).code once every unit has its statement
Generate ==
  /\ pc = "analysed"
  /\ Len(statements) = Len(units)
  /\ pc' = "generated"
  /\ UNCHANGED <<statements, output, err, parseVars, notGenerate>>

NextGenerate ==
  \/ Analyse
  \/ GenerateEntity
  \/ Generate

SpecGenerate == InitGenerate /\ [][NextGenerate]_vars

\* the steps of generate give what the function gives
GenerateAgrees ==
  /\ pc = "generated" => generateAll(units) = Returned(statements)
  /\ (pc = "error" /\ units # <<>>) => generateAll(units) = Thrown(err)

----------------------------------------------------------------------------
(* Properties of generateEntity *)

IsGuideRecord(r) == r.title # Undefined

\* the number of units the records before record k are expanded into
RECURSIVE UnitsBefore(_)
UnitsBefore(k) ==
  IF k = 1 THEN 0
  ELSE UnitsBefore(k - 1) + Len(parseMeta(ast[k - 1]))

\* the unit of guide record k is the only unit of the record, and the
\* statement generated for it, once there is one, is a guide statement for
\* the title whose fields are the metadata of the record with the
\* documentation, name set to the title and module set to "guides"
GuideUnit(k) ==
  LET u == UnitsBefore(k) + 1
      fields == metaOf(units[u].meta).val
  IN  /\ Len(parseMeta(ast[k])) = 1
      /\ units[u] = parseMeta(ast[k])[1]
      /\ Len(statements) >= u =>
           /\ statements[u].template = "annotateGuide"
           /\ statements[u].GUIDE.value = ast[k].title.val
           /\ statements[u].OBJECT =
                mergeMeta(<< assign(fields, [name |-> ast[k].title,
                                             module |-> Str(GUIDES)]) >>).expr
           /\ statements[u].OBJECT.properties["name"].value = ast[k].title.val
           /\ statements[u].OBJECT.properties["module"].value = GUIDES
           /\ \A f \in DOMAIN fields \ {"name", "module", "documentation"} :
                statements[u].OBJECT.properties[f] =
                  valueToLiteral(fields[f], f).expr

GuideUnits ==
  /\ Cardinality({ n \in 1..Len(units) : units[n].title # Undefined })
       = Cardinality({ k \in 1..Len(ast) : IsGuideRecord(ast[k]) })
  /\ \A k \in 1..Len(ast) : IsGuideRecord(ast[k]) => GuideUnit(k)

\* C12 as stated: each guide record gives exactly one unit, with the fields
\* of the metadata, the documentation, name and module, and its statement
\* binds the title on the parent field of the metadata whenever the
\* metadata has one, and on folktale otherwise
C12_GuideBoundToParent ==
  pc \in {"analysed", "generated"} =>
    /\ GuideUnits
    /\ \A k \in 1..Len(ast) :
         (IsGuideRecord(ast[k]) /\ Len(statements) > UnitsBefore(k)) =>
           LET u == UnitsBefore(k) + 1
               fields == metaOf(units[u].meta).val
           IN  statements[u].PARENT.source =
                 IF "parent" \in DOMAIN fields
                 THEN fields["parent"].val
                 ELSE FOLKTALE

\* C12 amended: each guide record gives exactly one unit, with the fields
\* of the metadata, the documentation, name and module, and its statement
\* binds the title on the parent field of the metadata when the metadata
\* has one that is truthy (not empty, null or false), and on folktale
\* otherwise
C12_GuideBoundToTruthyParent ==
  pc \in {"analysed", "generated"} =>
    /\ GuideUnits
    /\ \A k \in 1..Len(ast) :
         (IsGuideRecord(ast[k]) /\ Len(statements) > UnitsBefore(k)) =>
           LET u == UnitsBefore(k) + 1
               fields == metaOf(units[u].meta).val
           IN  statements[u].PARENT.source =
                 IF Truthy(get(fields, "parent"))
                 THEN fields["parent"].val
                 ELSE FOLKTALE

\* the statement of a guide record with a parent and a name in its
\* metadata was generated, after the statement of an entity
C12_Witness ==
  /\ pc = "generated"
  /\ Len(ast) = 2
  /\ Len(statements) = 2
  /\ IsGuideRecord(ast[1])
  /\ ~IsGuideRecord(ast[2])
  /\ statements[1].PARENT.source = <<"p">>
  /\ get(metaOf(units[1].meta).val, "name") = Str(<<"n">>)
  /\ statements[1].OBJECT.properties["name"].value = <<"g">>
  /\ statements[1].OBJECT.properties["documentation"].value # <<>>

----------------------------------------------------------------------------
(* Main: one document from the source to the file written *)

PipelineLines == {AnnotateA, AnnotateBad, GuideG, Dashes, ParentP}

PipelineDocuments ==
  { JoinLines(ls) :
      ls \in UNION { [1..n -> PipelineLines] : n \in 0..MaxPipelineLines } }

InitPipeline ==
  /\ source \in PipelineDocuments
  /\ nodes = <<>>
  /\ i = 0
  /\ annotation = Null
  /\ current = Null
  /\ ast = <<>>
  /\ units = <<>>
  /\ statements = <<>>
  /\ output = Null
  /\ pc = "parse"
  /\ err = NoError
  /\ ClassifyIdle
  /\ MineIdle
  /\ MetaIdle
  /\ RewriteIdle
  /\ LiteralIdle
  /\ WithMetaIdle
  /\ RuntimeIdle

ErrTransform == "babel.transform"

\* babel.transform(js, ...): the code, or the error of the compiler
Transform ==
  /\ pc = "generated"
  /\ \E compiled \in BOOLEAN :
       IF compiled
       THEN /\ pc' = "transformed"
            /\ err' = err
       ELSE /\ pc' = "error"
            /\ err' = [kind |-> "Error", msg |-> ErrTransform, line |-> 0]
  /\ UNCHANGED <<statements, output, parseVars, notGenerate>>

\* the file written for the statements generated so far
WritePartial ==
  /\ pc = "analysed"
  /\ Len(statements) > 0
  /\ output = Null
  /\ output' = [code |-> statements]
  /\ UNCHANGED <<statements, pc, err, parseVars, notGenerate>>

\* mkdirp(...) and fs.writeFileSync(outPath, code)
Write ==
  /\ pc = "transformed"
  /\ output' = [code |-> statements]
  /\ pc' = "written"
  /\ UNCHANGED <<statements, err, parseVars, notGenerate>>

NextPipeline ==
  \/ Classify
  \/ Entity
  \/ Guide
  \/ Separator
  \/ EOF
  \/ Line
  \/ Analyse
  \/ GenerateEntity
  \/ Generate
  \/ Transform
  \/ Write

SpecPipeline == InitPipeline /\ [][NextPipeline]_vars

\* the Entity lines of the document
EntityLines == { k \in 1..Len(Classified(source)) :
                   Classified(source)[k].tag = "Entity" }

\* the k-th Entity line
EntityLine(k) ==
  CHOOSE n \in EntityLines :
    Cardinality({ m \in EntityLines : m < n }) = k - 1

\* three @annotate: directives, the first on the first line and each of the
\* others after a separator, and no @guide: directive: the first and the
\* third reference are expressions, the second is malformed, and the
\* metadata of every record is a mapping yaml.safeLoad accepts
ThreeEntitiesSecondMalformed ==
  LET cs == Classified(source) IN
    /\ \A k \in 1..Len(cs) : cs[k].tag \notin {"TypeError", "Guide"}
    /\ Cardinality(EntityLines) = 3
    /\ EntityLine(1) = 1
    /\ \A k \in 1..2 :
         \E m \in (EntityLine(k) + 1)..(EntityLine(k + 1) - 1) :
           cs[m].tag = "Separator"
    /\ cs[EntityLine(1)].payload.val \in References
    /\ cs[EntityLine(2)].payload.val \in Malformed
    /\ cs[EntityLine(3)].payload.val \in References
    /\ \A k \in 1..Len(parse(source).ast) :
         safeLoad(parse(source).ast[k].meta).ok

\* C13: for a document of three entity directives whose second reference
\* is malformed, parse does not fail and returns three records, analyse
\* gives three units, the first unit gets its statement, and the only
\* failure is the SyntaxError of the second unit: no statement is ever
\* generated for the second or the third unit and nothing is written
C13_FailsAtSecondUnit ==
  ThreeEntitiesSecondMalformed =>
    /\ pc \in {"analyse", "analysed", "error"} => Len(ast) = 3
    /\ pc \in {"analysed", "error"} => Len(units) = 3
    /\ Len(statements) <= 1
    /\ Len(statements) = 1 => Returned(statements[1]) = generateEntity(units[1])
    /\ pc = "error" =>
         /\ err = [kind |-> "SyntaxError", msg |-> ErrUnableToParse]
         /\ Len(statements) = 1
         /\ units[2].ref.val \in Malformed
    /\ pc \notin {"generated", "transformed", "written"}
    /\ output = Null

C13_Witness ==
  /\ ThreeEntitiesSecondMalformed
  /\ pc = "error"
  /\ err.kind = "SyntaxError"
  /\ Len(ast) = 3
  /\ Len(units) = 3
  /\ Len(statements) = 1
  /\ statements[1].template = "annotateEntity"

\* C14: a file is written only when parse, analyse and generateEntity for
\* every unit of the document have succeeded, and the file then has a
\* statement for every unit; once a stage has failed nothing is written
C14_NoPartialOutput ==
  /\ [](output # Null =>
          /\ pc = "written"
          /\ err = NoError
          /\ parse(source).error = NoError
          /\ ast = parse(source).ast
          /\ \A k \in 1..Len(ast) : safeLoad(ast[k].meta).ok
          /\ units = analyse(ast)
          /\ generateAll(units) = Returned(statements)
          /\ output = [code |-> statements])
  /\ [](pc = "error" => output = Null)
  /\ [][pc = "error" => (pc' = "error" /\ output' = Null)]_vars

\* the file of a document of two units or more was written
C14_Witness ==
  /\ pc = "written"
  /\ output # Null
  /\ Len(units) >= 2
  /\ Len(output.code) = Len(units)

----------------------------------------------------------------------------
(* Runtime: the statements of the emitted modules *)

MaxStatements == 3

GuideH == GUIDE \o <<" ", "h">>

\* the documents whose modules are run
RuntimeDocuments ==
  { JoinLines(ls) : ls \in { <<GuideG, Dashes>>,
                             <<GuideG, ParentP, Dashes>>,
                             <<GuideH, Dashes>>,
                             <<AnnotateA, Dashes>> } }

\* the body of the function generate emits for a document
body(s) == generateAll(analyse(parse(s).ast)).expr

\* the bodies of the modules of some documents, run one after the other
\* with the same folktale
RuntimePrograms ==
  { flatten([k \in 1..Len(ds) |-> body(ds[k])]) :
      ds \in UNION { [1..n -> RuntimeDocuments] : n \in 1..MaxStatements } }

InitRuntime ==
  /\ program \in RuntimePrograms
  /\ executed = 0
  /\ guides = <<>>
  /\ registry = <<>>
  /\ pc = "run"
  /\ err = NoError
  /\ ParseIdle
  /\ ClassifyIdle
  /\ MineIdle
  /\ MetaIdle
  /\ RewriteIdle
  /\ LiteralIdle
  /\ WithMetaIdle
  /\ GenerateIdle

notRuntime == <<parseVars, classifyVars, mineVars, metaVars, rewriteVars,
                literalVars, withMetaVars, generateVars>>

\* the property GUIDE of the object PARENT evaluates to
slot(st) == <<st.PARENT.source, st.GUIDE.value>>

\* the object made by the statement at a position of the program
made(n) == n

\* PARENT[GUIDE] = {}
assigned(st, object) ==
  [k \in DOMAIN guides \cup {slot(st)} |->
     IF k = slot(st) THEN object ELSE guides[k]]

\* meta.for(PARENT[GUIDE] = {}).update(OBJECT)
AnnotateGuide ==
  /\ pc = "run"
  /\ executed < Len(program)
  /\ program[executed + 1].template = "annotateGuide"
  /\ guides' = assigned(program[executed + 1], made(executed + 1))
  /\ registry' = Append(registry,
                        [target |-> [object |-> made(executed + 1)],
                         OBJECT |-> program[executed + 1].OBJECT])
  /\ executed' = executed + 1
  /\ UNCHANGED <<program, pc, err, notRuntime>>

\* meta.for(ENTITY).update(OBJECT)
AnnotateEntity ==
  /\ pc = "run"
  /\ executed < Len(program)
  /\ program[executed + 1].template = "annotateEntity"
  /\ registry' = Append(registry,
                        [target |-> [reference |->
                                       program[executed + 1].ENTITY.source],
                         OBJECT |-> program[executed + 1].OBJECT])
  /\ executed' = executed + 1
  /\ UNCHANGED <<program, guides, pc, err, notRuntime>>

NextRuntime ==
  \/ AnnotateGuide
  \/ AnnotateEntity

SpecRuntime == InitRuntime /\ [][NextRuntime]_vars

\* C19: a guide statement keeps the object the parent already has under
\* the title of the guide: the property is assigned only when it is absent
C19_ExistingGuideKept ==
  [][\A k \in DOMAIN guides : guides'[k] = guides[k]]_vars

====
